---- MODULE Spec2Model ----
(***************************************************************************)
(* ARPopulate (src/arpopulate.py): the IP network collection with its      *)
(* subnet exclusion and offset-walk sampling, the MAC range collection,    *)
(* the spoof-table build loop and the repeating broadcast loop.            *)
(*                                                                         *)
(* IPv4 addresses are written as their offset from the first address of    *)
(* the window 10.0.0.0/(32 - AddrBits); prefix lengths are the real ones.  *)
(***************************************************************************)
EXTENDS Integers, Sequences, FiniteSets, TLC

\* ------------------------------------------------------------------ bounds
\* Width of the address window the configured networks are drawn from.
AddrBits == 1
\* Width of the address window of the collections of SpecExclude and SpecRand.
ExclBits == 2
\* Longest collections S (self) and O (others) of SpecExclude.
MaxS == 2
MaxO == 2
\* Longest --target, --spoof and --mac argument lists.
MaxTargets == 2
MaxSpoofs == 2
MaxMacs == 1
\* --count values given on the command line are 0, 0.5, ..., MaxCountHalves/2.
MaxCountHalves == 3
\* --seconds values given on the command line are -1 .. MaxSeconds.
MaxSeconds == 1
\* Passes of the broadcast loop that are followed.
MaxPasses == 2
\* MAC ranges of SpecRand have masks of 48-MacLowBits..48 bits.
MacLowBits == 1
\* Longest MAC range collection of SpecRand.
MaxRanges == 2

\* ------------------------------------------------------- program constants
\* Prefix length of a single IPv4 address (ipaddress.IPv4Network).
MaxPrefixLen == 32
\* Bits of a MAC address.
MacBits == 48
\* Default of --count.
DefaultCount == 10

VARIABLES
    args,        \* parsed command line: target, spoof, mac, count, seconds
    pc,          \* position of the program
    err,         \* exception that ended the run at pc, "" while none
    targets,     \* IPNetworks of the targets
    spoofs,      \* IPNetworks of the spoof-able addresses (self of the exclusion)
    spoof_macs,  \* MACRanges
    others,      \* argument of the running addresses_exclude
    ret,         \* where the running addresses_exclude returns to
    i,           \* list iterator of "for s in self"
    j,           \* list iterator of "for o in others"
    s,           \* loop variable s
    removed,     \* members removed by the running scan of the while body
    total,       \* spoofs.len() as the build loop read it
    bound,       \* the range the build loop iterates over
    k,           \* iterations of the build loop started
    offset,      \* offset drawn by the last rand()
    address,     \* address drawn by the last spoofs.rand()
    spoofed,     \* the spoof table, in insertion order
    e,           \* iterator over spoofed.items()
    t,           \* iterator over targets
    h,           \* iterator over target.hosts()
    calls,       \* transport calls of the running pass
    first,       \* transport calls of the first pass
    passes       \* passes started

vars == <<args, pc, err, targets, spoofs, spoof_macs, others, ret, i, j, s,
          removed, total, bound, k, offset, address, spoofed, e, t, h, calls,
          first, passes>>

exclVars == <<others, ret, i, j, s, removed>>
buildVars == <<total, bound, k, offset, address, spoofed>>
schedVars == <<e, t, h, calls, first, passes>>

\* ----------------------------------------------------------------- helpers
RECURSIVE Pow2(_)
Pow2(x) == IF x <= 0 THEN 1 ELSE 2 * Pow2(x - 1)

SeqUpTo(S, m) == UNION {[1..l -> S] : l \in 1..m}

RECURSIVE SumSeq(_)
SumSeq(q) == IF q = <<>> THEN 0 ELSE Head(q) + SumSeq(Tail(q))

\* --------------------------------------------------- ipaddress.IPv4Network
Net(a, p) == [addr |-> a, prefix |-> p]

num_addresses(net) == Pow2(MaxPrefixLen - net.prefix)

broadcast_address(net) == net.addr + num_addresses(net) - 1

\* a.subnet_of(b)
subnet_of(a, b) ==
    /\ b.addr <= a.addr
    /\ broadcast_address(b) >= broadcast_address(a)

\* net.subnets(): the two halves, lower first
subnets(net) ==
    << Net(net.addr, net.prefix + 1),
       Net(net.addr + Pow2(MaxPrefixLen - net.prefix - 1), net.prefix + 1) >>

\* The loop of a.address_exclude(b), b a subnet of a, in the order it yields.
RECURSIVE exclude_walk(_, _, _)
exclude_walk(s1, s2, other) ==
    IF s1 = other THEN <<s2>>
    ELSE IF s2 = other THEN <<s1>>
    ELSE IF subnet_of(other, s1)
         THEN <<s2>> \o exclude_walk(subnets(s1)[1], subnets(s1)[2], other)
         ELSE <<s1>> \o exclude_walk(subnets(s2)[1], subnets(s2)[2], other)

\* address_exclude whose loop stops after the first network it yields
address_exclude_first_only(a, b) ==
    IF a = b THEN <<>>
    ELSE <<Head(exclude_walk(subnets(a)[1], subnets(a)[2], b))>>

address_exclude(a, b) ==
    IF a = b THEN <<>> ELSE exclude_walk(subnets(a)[1], subnets(a)[2], b)

\* net.hosts(): all addresses for /31 and /32, else without network and broadcast
hosts(net) ==
    IF net.prefix >= MaxPrefixLen - 1
    THEN [x \in 1..num_addresses(net) |-> net.addr + x - 1]
    ELSE [x \in 1..(num_addresses(net) - 2) |-> net.addr + x]

\* Addresses a network covers, and a collection covers.
Covers(net) == net.addr .. broadcast_address(net)

Covered(nets) == UNION {Covers(nets[x]) : x \in DOMAIN nets}

\* --------------------------------------------------------------- list
\* list.index(x): position of the first member equal to x, 0 when there is none
RECURSIVE IndexOf(_, _, _)
IndexOf(q, x, from) ==
    IF from > Len(q) THEN 0
    ELSE IF q[from] = x THEN from ELSE IndexOf(q, x, from + 1)

\* list.remove(x), x a member
Remove(q, x) ==
    LET at == IndexOf(q, x, 1)
    IN  SubSeq(q, 1, at - 1) \o SubSeq(q, at + 1, Len(q))

\* ----------------------------------------------------------- IPNetworks
\* subnets_of with "return False" inside the outer loop: only the first member is looked at
subnets_of_first_member(self, os) ==
    /\ self # <<>>
    /\ \E y \in DOMAIN os : subnet_of(self[1], os[y])

IPNetworks_subnets_of(self, os) ==
    \E x \in DOMAIN self : \E y \in DOMAIN os : subnet_of(self[x], os[y])

IPNetworks_len(self) ==
    SumSeq([x \in DOMAIN self |-> num_addresses(self[x])])

\* Call of spoofs.addresses_exclude(os), returning to position to.
CallExclude(os, to) ==
    /\ others' = os
    /\ ret' = to
    /\ i' = 0
    /\ j' = 0
    /\ removed' = 0
    /\ UNCHANGED s
    /\ pc' = "while"

\* while self.subnets_of(others):
While ==
    /\ pc = "while"
    /\ err = ""
    /\ IF IPNetworks_subnets_of(spoofs, others)
       THEN /\ pc' = "for_s"
            /\ i' = 0
            /\ removed' = 0
       ELSE /\ pc' = ret
            /\ UNCHANGED <<i, removed>>
    /\ UNCHANGED <<args, err, targets, spoofs, spoof_macs, others, ret, j, s>>
    /\ UNCHANGED <<buildVars, schedVars>>

\* for s in self: the list iterator reads self[i] of the list as it is now
ForS ==
    /\ pc = "for_s"
    /\ err = ""
    /\ IF i < Len(spoofs)
       THEN /\ s' = spoofs[i + 1]
            /\ i' = i + 1
            /\ j' = 0
            /\ pc' = "for_o"
       ELSE /\ pc' = "while"
            /\ UNCHANGED <<s, i, j>>
    /\ UNCHANGED <<args, err, targets, spoofs, spoof_macs, others, ret, removed>>
    /\ UNCHANGED <<buildVars, schedVars>>

\* self.remove(s), then self.extend(more): ValueError when s is no member
RemoveThenExtend(more) ==
    IF IndexOf(spoofs, s, 1) = 0
    THEN /\ err' = "ValueError"
         /\ UNCHANGED <<pc, spoofs, removed>>
    ELSE /\ spoofs' = Remove(spoofs, s) \o more
         /\ removed' = removed + 1
         /\ pc' = "for_o"
         /\ UNCHANGED err

\* ForO without the elif branch: a member inside an excluded network stays
ForO_without_elif ==
    /\ pc = "for_o"
    /\ err = ""
    /\ IF j < Len(others)
       THEN /\ j' = j + 1
            /\ LET o == others[j + 1]
               IN  IF subnet_of(o, s)
                   THEN RemoveThenExtend(address_exclude(s, o))
                   ELSE /\ pc' = "for_o"
                        /\ UNCHANGED <<spoofs, removed, err>>
       ELSE /\ pc' = "for_s"
            /\ UNCHANGED <<j, spoofs, removed, err>>
    /\ UNCHANGED <<args, targets, spoof_macs, others, ret, i, s>>
    /\ UNCHANGED <<buildVars, schedVars>>

\* for o in others: and the body of the inner loop
ForO ==
    /\ pc = "for_o"
    /\ err = ""
    /\ IF j < Len(others)
       THEN /\ j' = j + 1
            /\ LET o == others[j + 1]
               IN  IF subnet_of(o, s)
                   THEN RemoveThenExtend(address_exclude(s, o))
                   ELSE IF subnet_of(s, o)
                        THEN RemoveThenExtend(<<>>)
                        ELSE /\ pc' = "for_o"
                             /\ UNCHANGED <<spoofs, removed, err>>
       ELSE /\ pc' = "for_s"
            /\ UNCHANGED <<j, spoofs, removed, err>>
    /\ UNCHANGED <<args, targets, spoof_macs, others, ret, i, s>>
    /\ UNCHANGED <<buildVars, schedVars>>

\* ------------------------------------------------------------ ip_network
\* A CIDR string "10.0.0.<addr>/<prefix>"; prefix NoPrefix when the string has none.
NoPrefix == 0 - 1

\* ip_network(text) raises ValueError: prefix out of range or host bits set
ip_network_fails(text) ==
    /\ text.prefix # NoPrefix
    /\ \/ text.prefix < 0
       \/ text.prefix > MaxPrefixLen
       \/ text.addr % Pow2(MaxPrefixLen - text.prefix) # 0

\* ip_network(text); a bare address is the network of that one address
ip_network(text) ==
    IF text.prefix = NoPrefix THEN Net(text.addr, MaxPrefixLen)
    ELSE Net(text.addr, text.prefix)

\* ------------------------------------------------------------------- MAC
\* Strings are sequences of one-character strings.
HexDigits == <<"0", "1", "2", "3", "4", "5", "6", "7", "8", "9",
               "a", "b", "c", "d", "e", "f">>

UpperHexDigits == <<"A", "B", "C", "D", "E", "F">>

\* [0-9]
IsDigit(c) == \E x \in 1..10 : HexDigits[x] = c

\* [0-9a-fA-F]
IsHex(c) ==
    \/ \E x \in DOMAIN HexDigits : HexDigits[x] = c
    \/ \E x \in DOMAIN UpperHexDigits : UpperHexDigits[x] = c

DigitVal(c) ==
    IF \E x \in DOMAIN HexDigits : HexDigits[x] = c
    THEN (CHOOSE x \in DOMAIN HexDigits : HexDigits[x] = c) - 1
    ELSE (CHOOSE x \in DOMAIN UpperHexDigits : UpperHexDigits[x] = c) + 9

\* int(text, base)
RECURSIVE IntOf(_, _, _)
IntOf(text, base, acc) ==
    IF text = <<>> THEN acc
    ELSE IntOf(Tail(text), base, acc * base + DigitVal(Head(text)))

\* split(r"[^0-9a-fA-F]", text)
RECURSIVE split(_, _)
split(text, part) ==
    IF text = <<>> THEN <<part>>
    ELSE IF IsHex(Head(text)) THEN split(Tail(text), Append(part, Head(text)))
         ELSE <<part>> \o split(Tail(text), <<>>)

\* int.from_bytes(parts, byteorder="big")
RECURSIVE from_bytes(_, _)
from_bytes(parts, acc) ==
    IF parts = <<>> THEN acc
    ELSE from_bytes(Tail(parts), acc * 256 + Head(parts))

MAC_parse(text) ==
    LET parts == split(text, <<>>)
    IN  from_bytes([x \in DOMAIN parts |-> IntOf(parts[x], 16, 0)], 0)

\* The regular expression of MACRange.__init__ matches text.
MacMatches(text) ==
    /\ Len(text) >= 17
    /\ \A g \in 0..5 : IsHex(text[3 * g + 1]) /\ IsHex(text[3 * g + 2])
    /\ \A g \in 0..4 : text[3 * g + 3] \in {":", ".", "-"}
    /\ \/ Len(text) = 17
       \/ /\ Len(text) >= 19
          /\ text[18] = "/"
          /\ \A x \in 19..Len(text) : IsDigit(text[x])

\* MACRange_raises without the negative shift count of a mask above 48
MACRange_raises_any_mask(text) ==
    IF ~MacMatches(text) THEN "AttributeError"
    ELSE IF Len(text) = 17 THEN "TypeError"
    ELSE ""

\* The exception MACRange(text) raises, "" when it raises none.
MACRange_raises(text) ==
    IF ~MacMatches(text) THEN "AttributeError"
    ELSE IF Len(text) = 17 THEN "TypeError"
    ELSE IF IntOf(SubSeq(text, 19, Len(text)), 10, 0) > MacBits THEN "ValueError"
    ELSE ""

\* MACRange(text), text one that raises nothing
MACRange_init(text) ==
    LET mask == IntOf(SubSeq(text, 19, Len(text)), 10, 0)
        mac == MAC_parse(SubSeq(text, 1, 17))
    IN  [mac |-> mac - (mac % Pow2(MacBits - mask)), mask |-> mask]

MACRange_len(range) == Pow2(MacBits - range.mask)

\* ------------------------------------------------------------- MACRanges
MACRanges_len(self) ==
    SumSeq([x \in DOMAIN self |-> MACRange_len(self[x])])

\* The loop of MACRanges.rand from member x on: the member it stops in and
\* the value it returns; member 0 when the loop runs off the end (None).
RECURSIVE MACRanges_walk(_, _, _)
MACRanges_walk(self, x, off) ==
    IF x > Len(self) THEN [member |-> 0, value |-> 0 - 1]
    ELSE IF off >= MACRange_len(self[x])
         THEN MACRanges_walk(self, x + 1, off - MACRange_len(self[x]))
         ELSE [member |-> x, value |-> self[x].mac + off]

\* IPNetworks.rand comparing with > where the code compares with >=
RECURSIVE IPNetworks_walk_gt(_, _, _)
IPNetworks_walk_gt(self, x, off) ==
    IF x > Len(self) THEN [member |-> 0, value |-> 0 - 1]
    ELSE IF off > num_addresses(self[x])
         THEN IPNetworks_walk_gt(self, x + 1, off - num_addresses(self[x]))
         ELSE [member |-> x, value |-> self[x].addr + off]

\* The loop of IPNetworks.rand, likewise.
RECURSIVE IPNetworks_walk(_, _, _)
IPNetworks_walk(self, x, off) ==
    IF x > Len(self) THEN [member |-> 0, value |-> 0 - 1]
    ELSE IF off >= num_addresses(self[x])
         THEN IPNetworks_walk(self, x + 1, off - num_addresses(self[x]))
         ELSE [member |-> x, value |-> self[x].addr + off]

\* ------------------------------------------------------------------ main
\* An uncaught exception ends the run where it is raised.
Raise(what) ==
    /\ err' = what
    /\ UNCHANGED pc

\* targets = ..., spoofs = ..., spoofs.addresses_exclude(targets)
ParseNetworks ==
    /\ pc = "start"
    /\ err = ""
    /\ IF \/ \E x \in DOMAIN args.target : ip_network_fails(args.target[x])
          \/ \E x \in DOMAIN args.spoof : ip_network_fails(args.spoof[x])
       THEN /\ Raise("ValueError")
            /\ UNCHANGED <<targets, spoofs, exclVars>>
       ELSE /\ targets' = [x \in DOMAIN args.target |-> ip_network(args.target[x])]
            /\ spoofs' = [x \in DOMAIN args.spoof |-> ip_network(args.spoof[x])]
            /\ CallExclude(targets', "macs")
            /\ UNCHANGED err
    /\ UNCHANGED <<args, spoof_macs>>
    /\ UNCHANGED <<buildVars, schedVars>>

\* spoof_macs = MACRanges([MACRange(spoof_mac) for spoof_mac in args.mac])
ParseMacs ==
    /\ pc = "macs"
    /\ err = ""
    /\ IF \E x \in DOMAIN args.mac : MACRange_raises(args.mac[x]) # ""
       THEN /\ LET x == CHOOSE y \in DOMAIN args.mac :
                        /\ MACRange_raises(args.mac[y]) # ""
                        /\ \A z \in 1..(y - 1) : MACRange_raises(args.mac[z]) = ""
               IN  Raise(MACRange_raises(args.mac[x]))
            /\ UNCHANGED spoof_macs
       ELSE /\ spoof_macs' = [x \in DOMAIN args.mac |-> MACRange_init(args.mac[x])]
            /\ pc' = "range"
            /\ UNCHANGED err
    /\ UNCHANGED <<args, targets, spoofs>>
    /\ UNCHANGED <<exclVars, buildVars, schedVars>>

\* spoofed = {}; range(min(args.count, spoofs.len())): min keeps its first
\* argument unless the second is smaller; range refuses a float
Range ==
    /\ pc = "range"
    /\ err = ""
    /\ spoofed' = <<>>
    /\ k' = 0
    /\ total' = IPNetworks_len(spoofs)
    /\ IF 2 * IPNetworks_len(spoofs) < args.count.halves
       THEN /\ bound' = IPNetworks_len(spoofs)
            /\ pc' = "draw"
            /\ UNCHANGED err
       ELSE IF args.count.given
            THEN /\ Raise("TypeError")
                 /\ UNCHANGED bound
            ELSE /\ bound' = args.count.halves \div 2
                 /\ pc' = "draw"
                 /\ UNCHANGED err
    /\ UNCHANGED <<args, targets, spoofs, spoof_macs, offset, address>>
    /\ UNCHANGED <<exclVars, schedVars>>

\* for _ in range(...): address = spoofs.rand();
\* spoofs.addresses_exclude([ip_network(address)]); after the last iteration
\* the first pass of the while True loop starts
Draw ==
    /\ pc = "draw"
    /\ err = ""
    /\ IF k < bound
       THEN /\ k' = k + 1
            /\ IF IPNetworks_len(spoofs) = 0
               THEN /\ Raise("ValueError")
                    /\ UNCHANGED <<offset, address, exclVars>>
               ELSE /\ \E off \in 0..(IPNetworks_len(spoofs) - 1) :
                          /\ offset' = off
                          /\ address' = IPNetworks_walk(spoofs, 1, off).value
                    /\ CallExclude(<<ip_network([addr |-> address', prefix |-> NoPrefix])>>,
                                   "assign")
                    /\ UNCHANGED err
            /\ UNCHANGED <<e, passes, calls>>
       ELSE /\ pc' = "for_entry"
            /\ e' = 0
            /\ passes' = 1
            /\ calls' = <<>>
            /\ UNCHANGED <<k, err, offset, address, exclVars>>
    /\ UNCHANGED <<args, targets, spoofs, spoof_macs, total, bound, spoofed, t, h,
                   first>>

\* dict[key] = value: a present key keeps its place
Put(table, key, value) ==
    IF \E x \in DOMAIN table : table[x].ip = key
    THEN [x \in DOMAIN table |->
            IF table[x].ip = key THEN [ip |-> key, mac |-> value] ELSE table[x]]
    ELSE Append(table, [ip |-> key, mac |-> value])

\* spoofed[address] = spoof_macs.rand()
Assign ==
    /\ pc = "assign"
    /\ err = ""
    /\ \E off \in 0..(MACRanges_len(spoof_macs) - 1) :
          /\ offset' = off
          /\ spoofed' = Put(spoofed, address, MACRanges_walk(spoof_macs, 1, off).value)
    /\ pc' = "draw"
    /\ UNCHANGED <<args, err, targets, spoofs, spoof_macs, total, bound, k, address>>
    /\ UNCHANGED <<exclVars, schedVars>>

\* for address, mac in spoofed.items():
ForEntry ==
    /\ pc = "for_entry"
    /\ err = ""
    /\ IF e < Len(spoofed)
       THEN /\ e' = e + 1
            /\ t' = 0
            /\ pc' = "for_target"
       ELSE /\ pc' = "after_pass"
            /\ UNCHANGED <<e, t>>
    /\ UNCHANGED <<args, err, targets, spoofs, spoof_macs, h, calls, first, passes>>
    /\ UNCHANGED <<exclVars, buildVars>>

\* for target in targets:
ForTarget ==
    /\ pc = "for_target"
    /\ err = ""
    /\ IF t < Len(targets)
       THEN /\ t' = t + 1
            /\ h' = 0
            /\ pc' = "for_host"
       ELSE /\ pc' = "for_entry"
            /\ UNCHANGED <<t, h>>
    /\ UNCHANGED <<args, err, targets, spoofs, spoof_macs, e, calls, first, passes>>
    /\ UNCHANGED <<exclVars, buildVars>>

\* spoof with pdst and psrc taken from the wrong parameters
spoof_swapped(dst, src, hwsrc) == [pdst |-> src, psrc |-> dst, hwsrc |-> hwsrc]

\* spoof(dst, src, hwsrc): one frame handed to srp
spoof(dst, src, hwsrc) == [pdst |-> dst, psrc |-> src, hwsrc |-> hwsrc]

\* for host in target.hosts(): spoof(host, address, mac)
ForHost ==
    /\ pc = "for_host"
    /\ err = ""
    /\ IF h < Len(hosts(targets[t]))
       THEN /\ h' = h + 1
            /\ calls' = Append(calls, spoof(hosts(targets[t])[h + 1],
                                            spoofed[e].ip, spoofed[e].mac))
            /\ pc' = "for_host"
       ELSE /\ pc' = "for_target"
            /\ UNCHANGED <<h, calls>>
    /\ UNCHANGED <<args, err, targets, spoofs, spoof_macs, e, t, first, passes>>
    /\ UNCHANGED <<exclVars, buildVars>>

\* if args.seconds: sleep(args.seconds) else: break; sleep refuses a negative
AfterPass ==
    /\ pc = "after_pass"
    /\ err = ""
    /\ first' = IF passes = 1 THEN calls ELSE first
    /\ IF args.seconds.given /\ args.seconds.val # 0
       THEN IF args.seconds.val < 0
            THEN Raise("ValueError")
            ELSE /\ pc' = "sleep"
                 /\ UNCHANGED err
       ELSE /\ pc' = "done"
            /\ UNCHANGED err
    /\ UNCHANGED <<args, targets, spoofs, spoof_macs, e, t, h, calls, passes>>
    /\ UNCHANGED <<exclVars, buildVars>>

\* sleep returns and the while True loop starts the next pass
Wake ==
    /\ pc = "sleep"
    /\ err = ""
    /\ passes < MaxPasses
    /\ pc' = "for_entry"
    /\ e' = 0
    /\ passes' = passes + 1
    /\ calls' = <<>>
    /\ UNCHANGED <<args, err, targets, spoofs, spoof_macs, t, h, first>>
    /\ UNCHANGED <<exclVars, buildVars>>

\* ---------------------------------------------------------- command line
Networks(bits) ==
    {net \in [addr : 0..(Pow2(bits) - 1), prefix : (MaxPrefixLen - bits)..MaxPrefixLen] :
        net.addr % num_addresses(net) = 0}

\* CIDR strings of the window, those with host bits set among them
CidrInputs ==
    [addr : 0..(Pow2(AddrBits) - 1), prefix : (MaxPrefixLen - AddrBits)..MaxPrefixLen]

\* "00:00:00:00:00:" followed by the last group and the mask
MacText(group, mask) ==
    <<"0", "0", ":", "0", "0", ":", "0", "0", ":", "0", "0", ":", "0", "0", ":">>
        \o group \o mask

MacInputs ==
    {MacText(group, mask) :
        group \in {<<"0", "0">>, <<"0", "3">>, <<"z", "z">>, <<"0">>},
        mask \in {<<>>, <<"/", "4", "7">>, <<"/", "4", "8">>, <<"/", "4", "9">>}}

\* --count: the default (an int), or a float given on the command line
CountInputs ==
    {[given |-> FALSE, halves |-> 2 * DefaultCount]}
        \cup [given : {TRUE}, halves : 0..MaxCountHalves]

\* --seconds: None, or an int given on the command line
SecondsInputs ==
    {[given |-> FALSE, val |-> 0]} \cup [given : {TRUE}, val : (0 - 1)..MaxSeconds]

NoNet == Net(0, 0)

Init ==
    /\ args \in [target : SeqUpTo(CidrInputs, MaxTargets),
                 spoof : SeqUpTo(CidrInputs, MaxSpoofs),
                 mac : SeqUpTo(MacInputs, MaxMacs),
                 count : CountInputs,
                 seconds : SecondsInputs]
    /\ pc = "start"
    /\ err = ""
    /\ targets = <<>> /\ spoofs = <<>> /\ spoof_macs = <<>>
    /\ others = <<>> /\ ret = ""
    /\ i = 0 /\ j = 0 /\ s = NoNet /\ removed = 0
    /\ total = 0 /\ bound = 0 /\ k = 0 /\ offset = 0 /\ address = 0 /\ spoofed = <<>>
    /\ e = 0 /\ t = 0 /\ h = 0 /\ calls = <<>> /\ first = <<>> /\ passes = 0

Next ==
    \/ ParseNetworks \/ While \/ ForS \/ ForO \/ ParseMacs
    \/ Range \/ Draw \/ Assign
    \/ ForEntry \/ ForTarget \/ ForHost \/ AfterPass \/ Wake

Spec == Init /\ [][Next]_vars

\* ------------------------------------------------- addresses_exclude alone
\* The program at the call of line 157, spoofs.addresses_exclude(targets),
\* for target and spoof networks of the wider window.
InitExclude ==
    /\ spoofs \in SeqUpTo(Networks(ExclBits), MaxS)
    /\ others \in SeqUpTo(Networks(ExclBits), MaxO)
    /\ targets = others
    /\ args = [target |-> others, spoof |-> spoofs,
               mac |-> <<MacText(<<"0", "0">>, <<"/", "4", "8">>)>>,
               count |-> [given |-> FALSE, halves |-> 2 * DefaultCount],
               seconds |-> [given |-> FALSE, val |-> 0]]
    /\ pc = "while"
    /\ err = ""
    /\ spoof_macs = <<>>
    /\ ret = "macs"
    /\ i = 0 /\ j = 0 /\ s = NoNet /\ removed = 0
    /\ total = 0 /\ bound = 0 /\ k = 0 /\ offset = 0 /\ address = 0 /\ spoofed = <<>>
    /\ e = 0 /\ t = 0 /\ h = 0 /\ calls = <<>> /\ first = <<>> /\ passes = 0

NextExclude == While \/ ForS \/ ForO

SpecExclude == InitExclude /\ [][NextExclude]_vars

\* The interpreter runs the loop on: it takes a step whenever one is possible.
FairSpecExclude == SpecExclude /\ WF_vars(NextExclude)

\* ------------------------------------------------------------- rand alone
\* MAC strings "00:00:00:00:00:0<d>/<mask>" of the narrowest masks.
RandMacInputs ==
    {MacText(<<"0", HexDigits[d]>>, <<"/", "4", HexDigits[m + 1]>>) :
        d \in 1..Pow2(MacLowBits + 1), m \in (8 - MacLowBits)..8}

\* A target outside the window, so that the exclusion of line 157 leaves the
\* spoof networks as they were given.
OutsideTarget == Net(Pow2(ExclBits), MaxPrefixLen)

\* The program before the first spoofs.rand() of the build loop, for any
\* spoof networks of the window; and before the first spoof_macs.rand(), the
\* one spoof address drawn and excluded, for any MAC ranges.
InitRand ==
    /\ targets = <<OutsideTarget>>
    /\ err = ""
    /\ spoofed = <<>>
    /\ e = 0 /\ t = 0 /\ h = 0 /\ calls = <<>> /\ first = <<>> /\ passes = 0
    /\ \/ /\ pc = "draw"
          /\ k = 0
          /\ spoofs \in SeqUpTo(Networks(ExclBits), MaxS)
          /\ args = [target |-> targets, spoof |-> spoofs,
                     mac |-> <<MacText(<<"0", "0">>, <<"/", "4", "8">>)>>,
                     count |-> [given |-> FALSE, halves |-> 2 * DefaultCount],
                     seconds |-> [given |-> FALSE, val |-> 0]]
          /\ others = targets /\ ret = "macs"
          /\ i = 0 /\ j = 0 /\ s = NoNet /\ removed = 0
          /\ offset = 0 /\ address = 0
       \/ /\ pc = "assign"
          /\ k = 1
          /\ spoofs = <<>>
          /\ \E macs \in SeqUpTo(RandMacInputs, MaxRanges) :
                args = [target |-> targets, spoof |-> <<Net(0, MaxPrefixLen)>>,
                        mac |-> macs,
                        count |-> [given |-> FALSE, halves |-> 2 * DefaultCount],
                        seconds |-> [given |-> FALSE, val |-> 0]]
          /\ others = <<Net(0, MaxPrefixLen)>> /\ ret = "assign"
          /\ i = 1 /\ j = 1 /\ s = Net(0, MaxPrefixLen) /\ removed = 1
          /\ offset = 0 /\ address = 0
    /\ spoof_macs = [x \in DOMAIN args.mac |-> MACRange_init(args.mac[x])]
    /\ total = IPNetworks_len([x \in DOMAIN args.spoof |-> ip_network(args.spoof[x])])
    /\ bound = IF total < DefaultCount THEN total ELSE DefaultCount

NextRand == Draw \/ Assign

SpecRand == InitRand /\ [][NextRand]_vars

\* ================================================================ claims
\* C1: after spoofs.addresses_exclude(targets) returns, no address covered by
\* a member of the excluded collection is covered by a member of spoofs.
C1_ExcludedAddressesGone ==
    (pc = "macs" /\ err = "") => Covered(spoofs) \cap Covered(targets) = {}

\* C2: whenever addresses_exclude(O) completes, no member of S is a subnet
\* of, or equal to, a member of O.
C2_NoMemberInsideExcluded ==
    (pc = ret /\ err = "") =>
        \A x \in DOMAIN spoofs : \A y \in DOMAIN others :
            ~(Covers(spoofs[x]) \subseteq Covers(others[y]))

\* The exclusion has removed members, and has returned with members left.
C2_Witness ==
    /\ pc = ret /\ err = ""
    /\ removed > 0
    /\ spoofs # <<>>
    /\ Len(others) = 2 /\ others[1] # others[2]

\* Positions of the broadcast loop.
SchedPcs == {"for_entry", "for_target", "for_host", "after_pass", "sleep", "done"}

\* floor(min(requested count, address count of the spoof space the build read))
EffectiveCount ==
    IF args.count.halves \div 2 < total THEN args.count.halves \div 2 ELSE total

\* C3: the build loop produces a table of exactly
\* floor(min(requested count, address count of the spoof space)) entries with
\* pairwise distinct keys.
C3_TableSize ==
    pc \in SchedPcs =>
        /\ Len(spoofed) = EffectiveCount
        /\ \A x, y \in DOMAIN spoofed : spoofed[x].ip = spoofed[y].ip => x = y

\* C4: no key of the spoof table is an address covered by a target network.
C4_NoTargetKey ==
    \A x \in DOMAIN spoofed : spoofed[x].ip \notin Covered(targets)

\* C6 (the part of it a finite run decides): with a value given for
\* --seconds, here one that is no negative interval, the program never leaves
\* the loop after a pass, and without one it never sleeps.
C6_RepeatsIffSecondsGiven ==
    /\ (args.seconds.given /\ args.seconds.val >= 0) => pc # "done"
    /\ ~args.seconds.given => pc # "sleep"

\* C7: with a requested count of 0, or an empty spoof pool after the targets
\* are excluded, the build raises nothing, the table is empty and no
\* transport call is made.
C7_EmptyBuild ==
    (/\ pc \in {"range", "draw"} \cup SchedPcs
     /\ \/ args.count.halves = 0
        \/ IF pc = "range" THEN IPNetworks_len(spoofs) = 0 ELSE total = 0)
    => (err = "" /\ spoofed = <<>> /\ calls = <<>>)

\* Host addresses of all targets, target after target.
RECURSIVE HostsFrom(_)
HostsFrom(x) ==
    IF x > Len(targets) THEN <<>> ELSE hosts(targets[x]) \o HostsFrom(x + 1)

\* The calls of one pass: table entries outermost, then targets, then hosts.
ExpectedCalls ==
    LET H == HostsFrom(1)
    IN  [x \in 1..(Len(spoofed) * Len(H)) |->
            [pdst |-> H[((x - 1) % Len(H)) + 1],
             psrc |-> spoofed[((x - 1) \div Len(H)) + 1].ip,
             hwsrc |-> spoofed[((x - 1) \div Len(H)) + 1].mac]]

WellFormedMacs ==
    {MacText(group, mask) :
        group \in {<<"0", "0">>, <<"0", "3">>},
        mask \in {<<"/", "4", "7">>, <<"/", "4", "8">>}}

\* A CIDR string with bits set beyond its prefix.
MalformedCidr(text) == text.addr % Pow2(MaxPrefixLen - text.prefix) # 0

MalformedNets ==
    \/ \E x \in DOMAIN args.target : MalformedCidr(args.target[x])
    \/ \E x \in DOMAIN args.spoof : MalformedCidr(args.spoof[x])

Malformed ==
    \/ MalformedNets
    \/ \E x \in DOMAIN args.mac : args.mac[x] \notin WellFormedMacs

\* C8: a run with a malformed CIDR or MAC value never gets past the build of
\* the configuration and makes no transport call, and the step that reads the
\* malformed value (the networks at "start", the MAC ranges at "macs") raises.
C8_MalformedFailsFast ==
    /\ [](Malformed =>
            /\ pc \in {"start", "while", "for_s", "for_o", "macs"}
            /\ ret \in {"", "macs"}
            /\ calls = <<>> /\ passes = 0 /\ spoofed = <<>>)
    /\ [][((MalformedNets /\ pc = "start") \/ (Malformed /\ pc = "macs"))
            => err' # ""]_vars

\* MACRange has refused a mask above 48, after the networks were accepted.
C8_Witness ==
    /\ Malformed
    /\ pc = "macs" /\ err = "ValueError"
    /\ spoofs # <<>>

\* Total length of the members before member x.
RECURSIVE LenBefore(_, _)
LenBefore(lens, x) == IF x <= 1 THEN 0 ELSE lens[x - 1] + LenBefore(lens, x - 1)

\* The member in which offset off falls, by the lengths of the members.
MemberOf(lens, off) ==
    CHOOSE x \in DOMAIN lens :
        LenBefore(lens, x) <= off /\ off < LenBefore(lens, x) + lens[x]

NetLens == [x \in DOMAIN spoofs |-> Pow2(MaxPrefixLen - spoofs[x].prefix)]

MacLens == [x \in DOMAIN spoof_macs |-> Pow2(MacBits - spoof_macs[x].mask)]

\* spoofs.rand() has just returned address for offset.
DrawnIP == pc = "while" /\ ret = "assign" /\ spoofs # <<>>

\* spoof_macs.rand() has just returned the MAC of the last table entry for offset.
DrawnMAC == pc = "draw" /\ k > 0 /\ spoofed # <<>>

\* C9: for every offset below the total length rand() returns a value, it
\* lies inside the member in which the offset falls, different offsets give
\* different (member, position) pairs, and when the members are pairwise
\* disjoint every covered address is returned for exactly one offset.
C9_OffsetWalk ==
    /\ DrawnIP =>
          LET m == MemberOf(NetLens, offset)
          IN  /\ spoofs[m].addr <= address
              /\ address <= spoofs[m].addr + NetLens[m] - 1
              /\ address - spoofs[m].addr = offset - LenBefore(NetLens, m)
    /\ DrawnMAC =>
          LET m == MemberOf(MacLens, offset)
              mac == spoofed[Len(spoofed)].mac
          IN  /\ spoof_macs[m].mac <= mac
              /\ mac <= spoof_macs[m].mac + MacLens[m] - 1
              /\ mac - spoof_macs[m].mac = offset - LenBefore(MacLens, m)
    /\ \A o1, o2 \in 0..(SumSeq(NetLens) - 1) :
          LET w1 == IPNetworks_walk(spoofs, 1, o1)
              w2 == IPNetworks_walk(spoofs, 1, o2)
          IN  /\ w1.member # 0
              /\ (w1.member = w2.member /\ w1.value = w2.value) => o1 = o2
    /\ \A o1, o2 \in 0..(SumSeq(MacLens) - 1) :
          LET w1 == MACRanges_walk(spoof_macs, 1, o1)
              w2 == MACRanges_walk(spoof_macs, 1, o2)
          IN  /\ w1.member # 0
              /\ (w1.member = w2.member /\ w1.value = w2.value) => o1 = o2
    /\ (\A x, y \in DOMAIN spoofs : x # y => Covers(spoofs[x]) \cap Covers(spoofs[y]) = {})
          => \A a \in Covered(spoofs) :
                Cardinality({o \in 0..(SumSeq(NetLens) - 1) :
                                IPNetworks_walk(spoofs, 1, o).value = a}) = 1

\* An address has been drawn from the second of two networks, at its last offset.
C9_Witness ==
    /\ DrawnIP
    /\ Len(spoofs) = 2
    /\ offset = SumSeq(NetLens) - 1
    /\ NetLens[1] > 1 /\ NetLens[2] > 1
    /\ address = spoofs[2].addr + NetLens[2] - 1

\* C10: every scan of the while body that runs to its end has removed at
\* least one member, and the loop is left, by return or by an exception,
\* after finitely many scans.
C10_Terminates ==
    /\ [][(pc = "for_s" /\ pc' = "while") => removed >= 1]_vars
    /\ <>(pc = ret \/ err # "")

\* A scan has removed members and the loop condition holds again.
C10_Witness ==
    /\ pc = "while" /\ err = ""
    /\ removed >= 1
    /\ \E x \in DOMAIN spoofs : \E y \in DOMAIN others :
          Covers(spoofs[x]) \subseteq Covers(others[y])

\* Positions inside a running addresses_exclude.
ExclPcs == {"while", "for_s", "for_o"}

\* C11: S.addresses_exclude(O) raises no error, for any S and O: no step of
\* it removes from S a member that an earlier step of the same scan removed.
C11_ExcludeNeverRaises ==
    pc \in ExclPcs => err = ""

\* The spoof networks as line 156 built them, before the exclusion of line 157.
SpoofsBefore == [x \in DOMAIN args.spoof |-> ip_network(args.spoof[x])]

\* C12: no step of addresses_exclude uncovers an address that no member of O
\* covers or changes O, so that every address covered by S before the call
\* and by no member of O stays covered by S, up to and at the return.
C12_OnlyRemovesCovered ==
    /\ []((ret = "macs" /\ pc \in ExclPcs \cup {"macs"}) =>
            (Covered(SpoofsBefore) \ Covered(others)) \subseteq Covered(spoofs))
    /\ [][(pc \in ExclPcs) =>
            ((Covered(spoofs) \ Covered(others)) \subseteq Covered(spoofs')
                /\ others' = others)]_vars

\* The exclusion has returned after splitting a member: S holds a remainder
\* that was no member before, and covers exactly what O does not cover.
C12_Witness ==
    /\ pc = ret /\ err = ""
    /\ ret = "macs"
    /\ \E x \in DOMAIN spoofs : \A y \in DOMAIN SpoofsBefore : spoofs[x] # SpoofsBefore[y]
    /\ Covered(spoofs) = Covered(SpoofsBefore) \ Covered(others)
    /\ Covered(spoofs) # Covered(SpoofsBefore)

====
